---- MODULE Spec2Model ----
(***************************************************************************)
(* Command template engine (src/services/command_template.py): template    *)
(* loading, parameter validation, path checks and command resolution.      *)
(*                                                                         *)
(* Text is modelled as sequences of one-character strings; "NUL" stands    *)
(* for the character U+0000 and "BQ" for the backquote U+0060.             *)
(* A Python value is a record [t, s, n]:                                   *)
(*   t = "none" | "str" | "int" | "float" | "bool"                         *)
(*   s = the text of a str, n = the number of an int, a bool (0/1), or a   *)
(*   float counted in halves (n = 3 is 1.5).                               *)
(***************************************************************************)
EXTENDS Integers, Sequences, FiniteSets, TLC

\* ------------------------------------------------------------------ bounds
MaxInt == 11

\* ------------------------------------------------------- characters, text
\* The characters in use, in code-point order.
Alphabet ==
    << "NUL", "\n", "\r", " ", "$", "&", "(", ")", "-", ".", "/",
       "0", "1", "2", "3", "4", "5", "6", "7", "8", "9",
       ";", "<", ">", "F", "N", "T", "\\", "BQ",
       "a", "b", "c", "d", "e", "f", "g", "h", "i", "l", "m", "n", "o", "p", "r",
       "s", "t", "u", "v", "w", "x", "y", "z", "{", "|", "}" >>

Ord(c) == CHOOSE i \in 1..Len(Alphabet) : Alphabet[i] = c

Digits == << "0", "1", "2", "3", "4", "5", "6", "7", "8", "9" >>

IsDigit(c) == \E i \in 1..10 : Digits[i] = c

DigitVal(c) == (CHOOSE i \in 1..10 : Digits[i] = c) - 1

Chars(s) == { s[i] : i \in 1..Len(s) }

\* sub in s  (Python substring test)
Contains(s, sub) ==
    \E i \in 0..(Len(s) - Len(sub)) :
        \A j \in 1..Len(sub) : s[i + j] = sub[j]

\* s.startswith(p)
StartsWith(s, p) ==
    /\ Len(p) <= Len(s)
    /\ \A j \in 1..Len(p) : s[j] = p[j]

\* a < b for text, by code point
RECURSIVE StrLess(_, _)
StrLess(a, b) ==
    IF b = << >> THEN FALSE
    ELSE IF a = << >> THEN TRUE
    ELSE IF a[1] = b[1] THEN StrLess(Tail(a), Tail(b))
    ELSE Ord(a[1]) < Ord(b[1])

\* ------------------------------------------------------------ Python values
NoneV == [t |-> "none", s |-> << >>, n |-> 0]
StrV(x) == [t |-> "str", s |-> x, n |-> 0]
IntV(k) == [t |-> "int", s |-> << >>, n |-> k]
FloatV(h) == [t |-> "float", s |-> << >>, n |-> h]
BoolV(b) == [t |-> "bool", s |-> << >>, n |-> IF b THEN 1 ELSE 0]

IsNum(v) == v.t \in {"int", "float", "bool"}

\* the number of a numeric value, in halves
Halves(v) == IF v.t = "float" THEN v.n ELSE 2 * v.n

\* Python ==  (numbers compare by value across int, float and bool)
PyEq(a, b) ==
    IF IsNum(a) /\ IsNum(b) THEN Halves(a) = Halves(b)
    ELSE a.t = b.t /\ a.s = b.s

\* decimal text of a natural number
RECURSIVE NatStr(_)
NatStr(k) ==
    IF k < 10 THEN << Digits[k + 1] >>
    ELSE NatStr(k \div 10) \o << Digits[(k % 10) + 1] >>

IntStr(k) == IF k < 0 THEN << "-" >> \o NatStr(0 - k) ELSE NatStr(k)

\* repr of a float counted in halves
FloatStr(h) ==
    LET a == IF h < 0 THEN 0 - h ELSE h
    IN  (IF h < 0 THEN << "-" >> ELSE << >>)
        \o NatStr(a \div 2) \o << "." >>
        \o (IF a % 2 = 0 THEN << "0" >> ELSE << "5" >>)

\* str(value), also what str.format writes for a value
PyStr(v) ==
    CASE v.t = "str" -> v.s
      [] v.t = "int" -> IntStr(v.n)
      [] v.t = "float" -> FloatStr(v.n)
      [] v.t = "bool" -> IF v.n = 1 THEN << "T", "r", "u", "e" >>
                         ELSE << "F", "a", "l", "s", "e" >>
      [] OTHER -> << "N", "o", "n", "e" >>

IsSpace(c) == c \in {" ", "\n", "\r"}

RECURSIVE LStrip(_)
LStrip(s) ==
    IF s # << >> /\ IsSpace(s[1]) THEN LStrip(Tail(s)) ELSE s

RECURSIVE RStrip(_)
RStrip(s) ==
    IF s # << >> /\ IsSpace(s[Len(s)])
    THEN RStrip(SubSeq(s, 1, Len(s) - 1)) ELSE s

Strip(s) == RStrip(LStrip(s))

RECURSIVE DigitsVal(_)
DigitsVal(s) ==
    IF s = << >> THEN 0
    ELSE 10 * DigitsVal(SubSeq(s, 1, Len(s) - 1)) + DigitVal(s[Len(s)])

AllDigits(s) == s # << >> /\ \A i \in 1..Len(s) : IsDigit(s[i])

\* the result of an operation that may raise: kind is "ok" or the exception
Ok(v) == [kind |-> "ok", val |-> v]
Raise(k) == [kind |-> k, val |-> NoneV]

\* int(text): surrounding white space, an optional sign, decimal digits
ParseInt(s) ==
    LET b == Strip(s)
        neg == b # << >> /\ b[1] = "-"
        d == IF neg THEN Tail(b) ELSE b
    IN  IF AllDigits(d)
        THEN Ok(IntV(IF neg THEN 0 - DigitsVal(d) ELSE DigitsVal(d)))
        ELSE Raise("ValueError")

\* int(value)
PyInt(v) ==
    CASE v.t = "str" -> ParseInt(v.s)
      [] v.t = "int" -> Ok(v)
      [] v.t = "bool" -> Ok(IntV(v.n))
      [] v.t = "float" ->
            Ok(IntV(IF v.n < 0 THEN 0 - ((0 - v.n) \div 2) ELSE v.n \div 2))
      [] OTHER -> Raise("TypeError")

\* float(text): as int(text), with an optional fraction ".0" or ".5"
ParseFloat(s) ==
    LET b == Strip(s)
        neg == b # << >> /\ b[1] = "-"
        d == IF neg THEN Tail(b) ELSE b
        dot == IF \E i \in 1..Len(d) : d[i] = "."
               THEN CHOOSE i \in 1..Len(d) : d[i] = "." ELSE 0
        ip == IF dot = 0 THEN d ELSE SubSeq(d, 1, dot - 1)
        fp == IF dot = 0 THEN << >> ELSE SubSeq(d, dot + 1, Len(d))
        mag == 2 * DigitsVal(ip) + (IF fp = << "5" >> THEN 1 ELSE 0)
    IN  IF AllDigits(ip) /\ fp \in { << >>, << "0" >>, << "5" >> }
        THEN Ok(FloatV(IF neg THEN 0 - mag ELSE mag))
        ELSE Raise("ValueError")

\* float(value)
PyFloat(v) ==
    CASE v.t = "str" -> ParseFloat(v.s)
      [] v.t = "float" -> Ok(v)
      [] v.t \in {"int", "bool"} -> Ok(FloatV(2 * v.n))
      [] OTHER -> Raise("TypeError")

LowerChar(c) ==
    CASE c = "T" -> "t" [] c = "F" -> "f" [] c = "N" -> "n" [] OTHER -> c

\* str.lower()
Lower(s) == [i \in 1..Len(s) |-> LowerChar(s[i])]

\* bool(value)
PyBool(v) ==
    CASE v.t = "str" -> v.s # << >>
      [] v.t = "none" -> FALSE
      [] OTHER -> v.n # 0

\* ------------------------------------------------------------- file system
\* What Path(value).resolve() can see: the working directory and the
\* symbolic links that exist (src is replaced by dst, dst is canonical).
Slash == << "/" >>

Cwd == << "/", "s", "r", "v" >>

LinkPool ==
    { [src |-> << << "t", "m", "p" >>, << "w" >> >>,
       dst |-> << << "e", "t", "c" >> >>] }

Envs == { [cwd |-> Cwd, links |-> L] : L \in SUBSET LinkPool }

\* the segments of a path text, separated by "/"
RECURSIVE SplitPath(_, _, _)
SplitPath(s, cur, acc) ==
    IF s = << >> THEN Append(acc, cur)
    ELSE IF s[1] = "/" THEN SplitPath(Tail(s), << >>, Append(acc, cur))
    ELSE SplitPath(Tail(s), Append(cur, s[1]), acc)

RECURSIVE JoinPath(_)
JoinPath(segs) ==
    IF segs = << >> THEN << >>
    ELSE Slash \o segs[1] \o JoinPath(Tail(segs))

\* os.path.realpath over the segments still to read and the path so far
RECURSIVE RealPath(_, _, _)
RealPath(rest, sofar, env) ==
    IF rest = << >> THEN sofar
    ELSE LET seg == rest[1]
             next == Append(sofar, seg)
         IN  IF seg = << >> \/ seg = << "." >>
             THEN RealPath(Tail(rest), sofar, env)
             ELSE IF seg = << ".", "." >>
             THEN RealPath(Tail(rest),
                           IF sofar = << >> THEN sofar
                           ELSE SubSeq(sofar, 1, Len(sofar) - 1), env)
             ELSE IF \E l \in env.links : l.src = next
             THEN RealPath(Tail(rest),
                           (CHOOSE l \in env.links : l.src = next).dst, env)
             ELSE RealPath(Tail(rest), next, env)

\* str(Path(value).resolve())
Resolve(value, env) ==
    IF "NUL" \in Chars(value) THEN [kind |-> "ValueError", path |-> << >>]
    ELSE LET abs == IF value # << >> /\ value[1] = "/" THEN value
                    ELSE env.cwd \o Slash \o value
             segs == RealPath(SplitPath(abs, << >>, << >>), << >>, env)
         IN  [kind |-> "ok",
              path |-> IF segs = << >> THEN Slash ELSE JoinPath(segs)]

\* ----------------------------------------------------- parameter definition
\* class ParameterDefinition.  An unset Optional field is NoneV (numbers),
\* the empty sequence (lists) or NoPattern.
\* A pattern is the regular expression  [cls]+  or, anchored,  [cls]+$ .
NoPattern == [set |-> FALSE, cls |-> {}, anchored |-> FALSE]

ValidTypes == {"string", "int", "float", "bool", "path", "enum"}

ParameterDefinition(type) ==
    [type |-> type, required |-> TRUE, default |-> NoneV,
     min_length |-> NoneV, max_length |-> NoneV,
     min_value |-> NoneV, max_value |-> NoneV,
     pattern |-> NoPattern, allowed_values |-> << >>,
     allowed_paths |-> << >>, forbidden_paths |-> << >>]

\* re.match(pattern, value): a match at the start of the text; "$" matches
\* at the end and before a final line feed
ReMatch(pattern, value) ==
    \E k \in 1..Len(value) :
        /\ \A i \in 1..k : value[i] \in pattern.cls
        /\ \/ ~pattern.anchored
           \/ k = Len(value)
           \/ k = Len(value) - 1 /\ value[Len(value)] = "\n"

\* -------------------------------------------------------- ParameterValidator
DangerousChars == {"BQ", "$", ";", "&", "|", ">", "<", "\n", "\r"}

_validate_string(value, definition) ==
    IF definition.min_length # NoneV /\ Len(value) < definition.min_length.n
    THEN Raise("ValidationError")
    ELSE IF definition.max_length # NoneV
            /\ Len(value) > definition.max_length.n
    THEN Raise("ValidationError")
    ELSE IF definition.pattern.set /\ ~ReMatch(definition.pattern, value)
    THEN Raise("ValidationError")
    ELSE IF Chars(value) \cap DangerousChars # {}
    THEN Raise("SecurityViolationError")
    ELSE Ok(StrV(value))

_validate_numeric(value, definition) ==
    IF definition.min_value # NoneV
       /\ Halves(value) < Halves(definition.min_value)
    THEN Raise("ValidationError")
    ELSE IF definition.max_value # NoneV
            /\ Halves(value) > Halves(definition.max_value)
    THEN Raise("ValidationError")
    ELSE Ok(value)

\* path_str.startswith(prefix) for some prefix of the list
PrefixMatch(path_str, prefixes) ==
    \E i \in 1..Len(prefixes) : StartsWith(path_str, prefixes[i])

\* the checks of _validate_path on r, the outcome of Path(value).resolve()
PathChecks(value, definition, r) ==
    IF r.kind # "ok" THEN Raise(r.kind)
    ELSE IF Contains(value, << ".", "." >>) \/ r.path # value
    THEN Raise("SecurityViolationError")
    ELSE IF definition.allowed_paths # << >>
            /\ ~PrefixMatch(r.path, definition.allowed_paths)
    THEN Raise("SecurityViolationError")
    ELSE IF definition.forbidden_paths # << >>
            /\ PrefixMatch(r.path, definition.forbidden_paths)
    THEN Raise("SecurityViolationError")
    ELSE Ok(StrV(r.path))

_validate_path(value, definition, env) ==
    PathChecks(value, definition, Resolve(value, env))

_validate_enum(value, definition) ==
    IF definition.allowed_values = << >> THEN Raise("ValidationError")
    ELSE IF ~\E i \in 1..Len(definition.allowed_values) :
                PyEq(value, definition.allowed_values[i])
    THEN Raise("ValidationError")
    ELSE Ok(value)

\* the range checks on a converted number c, or the exception of the
\* conversion
Numeric(c, definition) ==
    IF c.kind = "ok" THEN _validate_numeric(c.val, definition) ELSE c

TrueWords ==
    { << "t", "r", "u", "e" >>, << "1" >>, << "y", "e", "s" >>,
      << "o", "n" >> }

\* the type dispatch of validate_parameter, on a value that is not None
Coerce(value, definition, env) ==
    CASE definition.type = "string" ->
            _validate_string(PyStr(value), definition)
      [] definition.type = "int" -> Numeric(PyInt(value), definition)
      [] definition.type = "float" -> Numeric(PyFloat(value), definition)
      [] definition.type = "bool" ->
            IF value.t = "str" THEN Ok(BoolV(Lower(value.s) \in TrueWords))
            ELSE Ok(BoolV(PyBool(value)))
      [] definition.type = "path" ->
            _validate_path(PyStr(value), definition, env)
      [] definition.type = "enum" -> _validate_enum(value, definition)
      [] OTHER -> Raise("ValidationError")

\* the except clause of validate_parameter
Except(r) ==
    IF r.kind \in {"ValueError", "TypeError"} THEN Raise("ValidationError")
    ELSE r

\* validate_parameter taking every parameter for optional
validate_parameter_Optional(value, definition, env) ==
    IF value = NoneV /\ definition.default = NoneV THEN Ok(NoneV)
    ELSE Except(Coerce(IF value = NoneV THEN definition.default ELSE value,
                       definition, env))

\* validate_parameter returning a default as the document gives it, without
\* the type conversion
validate_parameter_RawDefault(value, definition, env) ==
    IF value = NoneV /\ definition.required /\ definition.default = NoneV
    THEN Raise("ValidationError")
    ELSE IF value = NoneV THEN Ok(definition.default)
    ELSE Except(Coerce(value, definition, env))

\* ParameterValidator.validate_parameter: the value (NoneV when absent)
\* against the definition; ValueError and TypeError become ValidationError
validate_parameter(value, definition, env) ==
    IF value = NoneV /\ definition.required /\ definition.default = NoneV
    THEN Raise("ValidationError")
    ELSE IF value = NoneV /\ definition.default = NoneV THEN Ok(NoneV)
    ELSE Except(Coerce(IF value = NoneV THEN definition.default ELSE value,
                       definition, env))

\* ------------------------------------------------------------ CommandTemplate
\* A template is [name, command, category, parameters]; parameters is the
\* sequence of [name, def] in the order of the configuration document.
\* The execution settings are never read by the engine and are left out.

\* validator('command'): re.search of each dangerous pattern
validate_command_template(command) ==
    /\ Chars(command) \cap {";", "&", "|", "BQ", "$", "(", ")"} = {}
    /\ "\\" \notin Chars(command)
    /\ ~Contains(command, << ".", ".", "/" >>)
    /\ ~Contains(command, << "s", "u", "d", "o" >>)
    /\ ~Contains(command, << "s", "u", " " >>)

\* validator('type')
validate_type(type) == type \in ValidTypes

\* the body of the loop of load_templates for one entry of the document:
\* TRUE iff every ParameterDefinition and the CommandTemplate construct
Constructs(entry) ==
    /\ \A i \in 1..Len(entry.parameters) :
            validate_type(entry.parameters[i].def.type)
    /\ validate_command_template(entry.command)

\* ------------------------------------------------- dict in insertion order
Keys(d) == { d[i].name : i \in 1..Len(d) }

Lookup(d, name) == d[CHOOSE i \in 1..Len(d) : d[i].name = name]

\* d[item.name] = item
DictSet(d, item) ==
    IF item.name \in Keys(d)
    THEN [i \in 1..Len(d) |-> IF d[i].name = item.name THEN item ELSE d[i]]
    ELSE Append(d, item)

\* ------------------------------------------------------ CommandTemplateEngine
EmptyMap == [x \in {} |-> NoneV]

\* the outcome of a request: kind is "ok" or the exception raised; vals the
\* validated parameters; calls the parameter names validate_parameter was
\* invoked on, in order; who the parameter whose validation raised; text
\* the resolved command
Outcome(kind, vals, calls, who, text) ==
    [kind |-> kind, vals |-> vals, calls |-> calls, who |-> who,
     text |-> text]

\* parameters.get(param_name)
DictGet(parameters, name) ==
    IF name \in DOMAIN parameters THEN parameters[name] ELSE NoneV

\* validated_params[param_name] = validated_value
Put(vals, name, v) ==
    [x \in DOMAIN vals \cup {name} |-> IF x = name THEN v ELSE vals[x]]

\* the loop of validate_parameters taking the parameters last to first
RECURSIVE ValidateLoop_Reversed(_, _, _, _, _, _)
ValidateLoop_Reversed(decl, i, parameters, env, vals, calls) ==
    IF i > Len(decl) THEN Outcome("ok", vals, calls, << >>, << >>)
    ELSE LET p == decl[Len(decl) + 1 - i]
             r == validate_parameter(DictGet(parameters, p.name), p.def, env)
         IN  IF r.kind # "ok"
             THEN Outcome(r.kind, EmptyMap, Append(calls, p.name), p.name,
                          << >>)
             ELSE ValidateLoop_Reversed(decl, i + 1, parameters, env,
                                        Put(vals, p.name, r.val),
                                        Append(calls, p.name))

\* the loop of validate_parameters over template.parameters.items(), from
\* entry i on, with the values validated so far; LoopTurn is one turn, r
\* being what validate_parameter answers for entry i
RECURSIVE ValidateLoop(_, _, _, _, _, _)
RECURSIVE LoopTurn(_, _, _, _, _, _, _)
LoopTurn(decl, i, parameters, env, vals, calls, r) ==
    IF r.kind # "ok"
    THEN Outcome(r.kind, EmptyMap, Append(calls, decl[i].name),
                 decl[i].name, << >>)
    ELSE ValidateLoop(decl, i + 1, parameters, env,
                      Put(vals, decl[i].name, r.val),
                      Append(calls, decl[i].name))

ValidateLoop(decl, i, parameters, env, vals, calls) ==
    IF i > Len(decl) THEN Outcome("ok", vals, calls, << >>, << >>)
    ELSE LoopTurn(decl, i, parameters, env, vals, calls,
                  validate_parameter(DictGet(parameters, decl[i].name),
                                     decl[i].def, env))

\* validate_parameters looking for unknown names after the loop
validate_parameters_LoopFirst(reg, template_name, parameters, env) ==
    IF template_name \notin Keys(reg)
    THEN Outcome("CommandNotFoundError", EmptyMap, << >>, << >>, << >>)
    ELSE LET template == Lookup(reg, template_name)
             v == ValidateLoop(template.parameters, 1, parameters, env,
                               EmptyMap, << >>)
         IN  IF v.kind # "ok" THEN v
             ELSE IF DOMAIN parameters \ Keys(template.parameters) # {}
             THEN Outcome("ValidationError", EmptyMap, v.calls, << >>,
                          << >>)
             ELSE v

validate_parameters(reg, template_name, parameters, env) ==
    IF template_name \notin Keys(reg)
    THEN Outcome("CommandNotFoundError", EmptyMap, << >>, << >>, << >>)
    ELSE IF DOMAIN parameters
                \ Keys(Lookup(reg, template_name).parameters) # {}
    THEN Outcome("ValidationError", EmptyMap, << >>, << >>, << >>)
    ELSE ValidateLoop(Lookup(reg, template_name).parameters, 1, parameters,
                      env, EmptyMap, << >>)

\* the position of the first "}" of s, 0 if there is none
FirstClose(s) ==
    IF \E i \in 1..Len(s) : s[i] = "}"
    THEN CHOOSE i \in 1..Len(s) :
            s[i] = "}" /\ \A j \in 1..(i - 1) : s[j] # "}"
    ELSE 0

\* command.format(**vals): "{{" and "}}" are literal braces, "{name}" is
\* replaced by the text of vals[name].  Field names are looked up as they
\* stand (the attribute, index, conversion and format-spec syntax of a
\* replacement field is not modelled; no template of Docs uses it).
RECURSIVE Format(_, _, _)
Format(s, vals, out) ==
    IF s = << >> THEN [kind |-> "ok", text |-> out]
    ELSE IF s[1] = "{"
    THEN IF Len(s) >= 2 /\ s[2] = "{"
         THEN Format(SubSeq(s, 3, Len(s)), vals, Append(out, "{"))
         ELSE LET c == FirstClose(s)
                  field == SubSeq(s, 2, c - 1)
              IN  IF c = 0 THEN [kind |-> "ValueError", text |-> << >>]
                  ELSE IF field = << >> \/ AllDigits(field)
                  THEN [kind |-> "IndexError", text |-> << >>]
                  ELSE IF field \notin DOMAIN vals
                  THEN [kind |-> "KeyError", text |-> << >>]
                  ELSE Format(SubSeq(s, c + 1, Len(s)), vals,
                              out \o PyStr(vals[field]))
    ELSE IF s[1] = "}"
    THEN IF Len(s) >= 2 /\ s[2] = "}"
         THEN Format(SubSeq(s, 3, Len(s)), vals, Append(out, "}"))
         ELSE [kind |-> "ValueError", text |-> << >>]
    ELSE Format(Tail(s), vals, Append(out, s[1]))

\* the replacement fields command.format finds, in order; << >> when the
\* braces of the command do not pair up
RECURSIVE Fields(_)
Fields(s) ==
    IF s = << >> THEN << >>
    ELSE IF s[1] = "{" /\ Len(s) >= 2 /\ s[2] = "{"
    THEN Fields(SubSeq(s, 3, Len(s)))
    ELSE IF s[1] = "{"
    THEN LET c == FirstClose(s)
         IN  IF c = 0 THEN << >>
             ELSE << SubSeq(s, 2, c - 1) >> \o Fields(SubSeq(s, c + 1, Len(s)))
    ELSE Fields(Tail(s))

SweepChars == {"BQ", "$", ";", "&", "|"}

\* the try block of resolve_command: the exception it raises, or the text
Sweep(f) ==
    IF f.kind # "ok" THEN f
    ELSE IF Chars(f.text) \cap SweepChars # {}
    THEN [kind |-> "SecurityViolationError", text |-> << >>]
    ELSE f

ResolveBody(template, vals) == Sweep(Format(template.command, vals, << >>))

\* the except clauses of resolve_command: KeyError and every other
\* Exception are raised again as ValidationError
ResolveExcept(kind) == "ValidationError"

\* resolve_command after validate_parameters has answered v: the try
\* block and the except clauses
Substitute(template, v) ==
    IF v.kind # "ok" THEN v
    ELSE IF ResolveBody(template, v.vals).kind = "ok"
    THEN Outcome("ok", v.vals, v.calls, << >>,
                 ResolveBody(template, v.vals).text)
    ELSE Outcome(ResolveExcept(ResolveBody(template, v.vals).kind),
                 v.vals, v.calls, << >>, << >>)

resolve_command(reg, template_name, parameters, env) ==
    IF template_name \notin Keys(reg)
    THEN Outcome("CommandNotFoundError", EmptyMap, << >>, << >>, << >>)
    ELSE Substitute(Lookup(reg, template_name),
                    validate_parameters(reg, template_name, parameters, env))

\* --------------------------------------------------- configuration documents
\* The documents the configuration file can hold.  Each is the sequence of
\* its template entries in document order; exists = FALSE is a missing file.
Template(name, command, category, parameters) ==
    [name |-> name, command |-> command, category |-> category,
     parameters |-> parameters]

Param(name, def) == [name |-> name, def |-> def]

\* ls {p}
TplListDir ==
    Template(<< "l", "s" >>, << "l", "s", " ", "{", "p", "}" >>, "files",
        << Param(<< "p" >>, [ParameterDefinition("path") EXCEPT
                !.allowed_paths = << << "/", "t", "m", "p" >> >>,
                !.forbidden_paths = << << "/", "t", "m", "p", "/", "c" >> >>]) >>)

\* echo {m}
TplGreet ==
    Template(<< "e", "c", "h", "o" >>, << "e", "c", "h", "o", " ", "{", "m", "}" >>, "general",
        << Param(<< "m" >>, [ParameterDefinition("string") EXCEPT
                !.min_length = IntV(2), !.max_length = IntV(6)]) >>)

\* head -n {n} {p}, with p declared before n
TplHead ==
    Template(<< "h", "e", "a", "d" >>, << "h", "e", "a", "d", " ", "-", "n", " ", "{", "n", "}", " ", "{", "p", "}" >>, "files",
        << Param(<< "p" >>, [ParameterDefinition("path") EXCEPT
                !.allowed_paths = << << "/", "t", "m", "p", "/" >> >>]),
           Param(<< "n" >>, [ParameterDefinition("int") EXCEPT
                !.min_value = IntV(1), !.max_value = IntV(10)]) >>)

\* svc {s}
TplSvc ==
    Template(<< "s", "v", "c" >>, << "s", "v", "c", " ", "{", "s", "}" >>, "general",
        << Param(<< "s" >>, [ParameterDefinition("enum") EXCEPT
                !.required = FALSE, !.default = StrV(<< "o", "n" >>),
                !.allowed_values = << StrV(<< "o", "n" >>), StrV(<< "o", "f", "f" >>), IntV(1) >>]) >>)

\* run {b}
TplRun ==
    Template(<< "r", "u", "n" >>, << "r", "u", "n", " ", "{", "b", "}" >>, "general",
        << Param(<< "b" >>, [ParameterDefinition("bool") EXCEPT
                !.required = FALSE]) >>)

\* nice {f}
TplNice ==
    Template(<< "n", "i", "c", "e" >>, << "n", "i", "c", "e", " ", "{", "f", "}" >>, "general",
        << Param(<< "f" >>, [ParameterDefinition("float") EXCEPT
                !.default = StrV(<< "1", ".", "5" >>),
                !.min_value = IntV(0), !.max_value = IntV(3)]) >>)

\* id {u}, u matching [a-z]+$
TplId ==
    Template(<< "i", "d" >>, << "i", "d", " ", "{", "u", "}" >>, "general",
        << Param(<< "u" >>, [ParameterDefinition("string") EXCEPT
                !.pattern = [set |-> TRUE, anchored |-> TRUE,
                             cls |-> {"a", "n", "o", "t", "m", "p"}]]) >>)

\* a command with a backquote
TplBackquote == Template(<< "b", "q" >>, << "e", "c", "h", "o", " ", "BQ", "i", "d", "BQ" >>, "general", << >>)

\* a command with a redirection
TplRedirect == Template(<< "g", "t" >>, << "l", "s", " ", ">", " ", "x" >>, "files", << >>)

\* a declared parameter the command does not reference
TplDead ==
    Template(<< "d", "e", "a", "d" >>, << "i", "d" >>, "general",
        << Param(<< "u" >>, ParameterDefinition("string")) >>)

\* a placeholder without a declared parameter
TplCat == Template(<< "c", "a", "t" >>, << "c", "a", "t", " ", "{", "q", "}" >>, "files", << >>)

\* a parameter of an unknown type
TplBadType ==
    Template(<< "b", "a", "d" >>, << "w", "c", " ", "{", "x", "}" >>, "general",
        << Param(<< "x" >>, ParameterDefinition("regex")) >>)

\* a command with a parent-directory step
TplParent == Template(<< "u", "p" >>, << "l", "s", " ", ".", ".", "/", "x" >>, "files", << >>)

Doc(templates) == [exists |-> TRUE, templates |-> templates]

NoFile == [exists |-> FALSE, templates |-> << >>]

Docs ==
    { Doc(<< TplListDir, TplGreet, TplHead >>),
      Doc(<< TplSvc, TplRun, TplNice, TplId >>),
      Doc(<< TplListDir, TplBackquote, TplGreet >>),
      Doc(<< TplRedirect, TplDead, TplCat >>),
      Doc(<< TplSvc, TplBadType >>),
      Doc(<< TplParent >>),
      NoFile }

\* -------------------------------------------------------------- request input
\* the values a request can supply for a parameter
RawValues ==
    { StrV(<< "/", "t", "m", "p", "/", "w" >>), StrV(<< "/", "t", "m", "p", "w" >>), StrV(<< "/", "t", "m", "p", "/", "c", "d" >>), StrV(<< "/", "e", "t", "c" >>),
      StrV(<< "/", "t", "m", "p", "/", ".", "." >>), StrV(<< "/", "t", "m", "p", "/", ".", ".", "NUL" >>), StrV(<< "/", "t", "m", "p", "/", ";" >>), StrV(<< "/", "t", "m", "p", "/", ">" >>),
      StrV(<< "o", "n" >>), StrV(<< "5" >>), StrV(<< "1", ".", "5" >>),
      IntV(0), IntV(5), IntV(MaxInt), FloatV(3), BoolV(TRUE) }

\* a name no template declares
Unknown == << "z", "z" >>

\* a template name no document holds
Missing == << "n", "o", "p", "e" >>

\* marks a parameter the request leaves out
Absent == [t |-> "absent", s |-> << >>, n |-> 0]

\* the parameter maps a request can send for the declared parameters decl
Assignments(decl) ==
    { a \in [Keys(decl) \cup {Unknown} -> RawValues \cup {Absent}] :
        a[Unknown] \in {Absent, StrV(<< "o", "n" >>)} }

ParamMap(a) == [x \in { y \in DOMAIN a : a[y] # Absent } |-> a[x]]

ParamMaps(decl) == { ParamMap(a) : a \in Assignments(decl) }

Categories == {"", "files", "general"}

\* the exception handlers of the application: the status of the response
\* to a request whose handler raised the exception; an exception without a
\* handler is a server error
ExceptionStatus(kind) ==
    CASE kind = "ok" -> 200
      [] kind = "ValidationError" -> 400
      [] kind = "SecurityViolationError" -> 403
      [] OTHER -> 500

\* ---------------------------------------------------------- lookup, listing
get_template(reg, name) ==
    IF name \notin Keys(reg)
    THEN Outcome("CommandNotFoundError", EmptyMap, << >>, << >>, << >>)
    ELSE Outcome("ok", EmptyMap, << >>, << >>, << >>)

\* list(self.templates.values()), filtered when the category is not empty
list_templates(reg, category) ==
    LET Keep(t) == category = "" \/ t.category = category
    IN  SelectSeq(reg, Keep)

Names(seq) == [i \in 1..Len(seq) |-> seq[i].name]

\* ------------------------------------------------------------------- state
VARIABLES
    engine,     \* _template_engine: "none", or "ready" once an engine is assigned
    templates,  \* self.templates of that engine, in insertion order
    loader,     \* the running or the last call of its load_templates
    env,        \* the file system Path.resolve() sees
    last,       \* the request being answered: what it returned or raised
    callers     \* the threads that call get_template_engine

vars == << engine, templates, loader, env, last, callers >>

NoTemplate == Template(<< >>, << >>, "", << >>)

NoOutcome == Outcome("none", EmptyMap, << >>, << >>, << >>)

Request(op, name, params, template, out, list) ==
    [op |-> op, name |-> name, category |-> "", params |-> params,
     env |-> env, reg |-> templates, template |-> template, out |-> out,
     list |-> list]

NoRequest ==
    [op |-> "none", name |-> << >>, category |-> "", params |-> EmptyMap,
     env |-> [cwd |-> Cwd, links |-> {}], reg |-> << >>,
     template |-> NoTemplate, out |-> NoOutcome, list |-> << >>]

\* old is the registry the running call found and emptied
Loader(pc, config, i, init, error) ==
    [pc |-> pc, config |-> config, i |-> i, init |-> init, error |-> error,
     old |-> << >>]

\* the two threads of the server that call get_template_engine
Threads == {"a", "b"}

\* an engine object: its self.templates and the state of its load_templates
Self(registry, load) == [templates |-> registry, loader |-> load]

NoSelf == Self(<< >>, Loader("idle", << >>, 0, FALSE, ""))

\* A call of get_template_engine: where it stands; the engine object it is
\* constructing; whether its constructor has returned; the exception it
\* raised; and the object it returned, which is the object the global
\* variable names ("engine") or, once another call has assigned the
\* variable, another object ("other").
NoCaller ==
    [pc |-> "idle", self |-> NoSelf, built |-> FALSE, error |-> "",
     ref |-> "none"]

Init ==
    /\ engine = "none"
    /\ templates = << >>
    /\ loader = Loader("idle", << >>, 0, FALSE, "")
    /\ env \in Envs
    /\ last = NoRequest
    /\ callers = [t \in Threads |-> NoCaller]

\* A request is answered, and the answer taken, before the next step: the
\* answer depends only on the state the request ran in. Requests go to the
\* engine the global variable names, between the calls of
\* get_template_engine: the steps of a constructor touch only its own
\* object, and its assignment to the variable comes before or after a
\* request.
Idle ==
    /\ engine = "ready"
    /\ last.op = "none"
    /\ \A t \in Threads : callers[t].pc = "idle"

\* a symbolic link is made or removed
ChangeEnv(e) ==
    /\ last.op = "none"
    /\ e # env
    /\ env' = e
    /\ UNCHANGED << engine, templates, loader, last, callers >>

\* one turn of the loop of load_templates on an engine object: the entry is
\* constructed and stored, or its construction raises and load_templates
\* raises ValidationError
LoadTurn(self) ==
    LET entry == self.loader.config[self.loader.i]
    IN  IF Constructs(entry)
        THEN Self(DictSet(self.templates, entry),
                  [self.loader EXCEPT !.i = self.loader.i + 1])
        ELSE Self(self.templates,
                  [self.loader EXCEPT !.pc = "failed",
                                      !.error = "ValidationError",
                                      !.old = << >>])

\* get_template_engine is called and tests the global variable
GetEngine(t) ==
    /\ last.op = "none"
    /\ callers[t].pc = "idle"
    /\ callers' = [callers EXCEPT
                       ![t].pc = IF engine = "none" THEN "new" ELSE "ret"]
    /\ UNCHANGED << engine, templates, loader, env, last >>

\* the call found no engine: __init__ empties self.templates of a new
\* object and calls load_templates, which opens and parses the file,
\* holding doc
Construct(t, doc) ==
    /\ last.op = "none"
    /\ callers[t].pc = "new"
    /\ callers' =
            [callers EXCEPT ![t] =
                IF doc.exists
                THEN [@ EXCEPT !.pc = "init",
                               !.self = Self(<< >>,
                                             Loader("loop", doc.templates,
                                                    1, TRUE, ""))]
                ELSE [@ EXCEPT !.pc = "raised",
                               !.error = "FileNotFoundError"]]
    /\ UNCHANGED << engine, templates, loader, env, last >>

\* the call after a turn of the loop that gave the object self: a
\* constructor that raises leaves no object behind
Turned(call, self) ==
    IF self.loader.pc = "failed"
    THEN [call EXCEPT !.pc = "raised", !.self = NoSelf,
                      !.error = self.loader.error]
    ELSE [call EXCEPT !.self = self]

\* one turn of the loop of load_templates in a constructor
ConstructStep(t) ==
    /\ last.op = "none"
    /\ callers[t].pc = "init"
    /\ callers[t].self.loader.i <= Len(callers[t].self.loader.config)
    /\ callers' = [callers EXCEPT ![t] = Turned(@, LoadTurn(@.self))]
    /\ UNCHANGED << engine, templates, loader, env, last >>

\* the loop is over: load_templates and the constructor return
ConstructReturn(t) ==
    /\ last.op = "none"
    /\ callers[t].pc = "init"
    /\ callers[t].self.loader.i > Len(callers[t].self.loader.config)
    /\ callers' = [callers EXCEPT ![t].pc = "store",
                                  ![t].self.loader.pc = "done",
                                  ![t].built = TRUE]
    /\ UNCHANGED << engine, templates, loader, env, last >>

\* the new object is assigned to the global variable: whoever holds the
\* object the variable named now holds another object than the engine
Publish(t) ==
    /\ last.op = "none"
    /\ callers[t].pc = "store"
    /\ engine' = "ready"
    /\ templates' = callers[t].self.templates
    /\ loader' = callers[t].self.loader
    /\ callers' =
            [u \in Threads |->
                IF u = t
                THEN [callers[u] EXCEPT !.pc = "ret", !.self = NoSelf]
                ELSE IF callers[u].ref = "engine"
                     THEN [callers[u] EXCEPT !.ref = "other"]
                     ELSE callers[u]]
    /\ UNCHANGED << env, last >>

\* return _template_engine: the global variable is read again
ReturnEngine(t) ==
    /\ last.op = "none"
    /\ callers[t].pc = "ret"
    /\ callers' = [callers EXCEPT ![t].pc = "done", ![t].ref = "engine"]
    /\ UNCHANGED << engine, templates, loader, env, last >>

\* the thread has taken the engine, or the exception, and forgets it
Leave(t) ==
    /\ last.op = "none"
    /\ callers[t].pc \in {"done", "raised"}
    /\ callers' = [callers EXCEPT ![t] = NoCaller]
    /\ UNCHANGED << engine, templates, loader, env, last >>

\* load_templates is called on the engine in use: the file, holding doc, is
\* opened and parsed, then self.templates is emptied
Reload(doc) ==
    /\ Idle
    /\ loader.pc # "loop"
    /\ IF doc.exists
       THEN /\ templates' = << >>
            /\ loader' = [Loader("loop", doc.templates, 1, FALSE, "")
                              EXCEPT !.old = templates]
       ELSE /\ templates' = templates
            /\ loader' = Loader("failed", << >>, 0, FALSE,
                                "FileNotFoundError")
    /\ UNCHANGED << engine, env, last, callers >>

\* one turn of the loop of a reload: a template that raises leaves the
\* templates stored before it in the registry
LoadStep ==
    /\ last.op = "none"
    /\ loader.pc = "loop"
    /\ loader.i <= Len(loader.config)
    /\ templates' = LoadTurn(Self(templates, loader)).templates
    /\ loader' = LoadTurn(Self(templates, loader)).loader
    /\ UNCHANGED << engine, env, last, callers >>

\* the loop of a reload is over: load_templates returns
LoadReturn ==
    /\ last.op = "none"
    /\ loader.pc = "loop"
    /\ loader.i > Len(loader.config)
    /\ loader' = [loader EXCEPT !.pc = "done", !.old = << >>]
    /\ UNCHANGED << engine, templates, env, last, callers >>

TemplateOf(name) ==
    IF name \in Keys(templates) THEN Lookup(templates, name) ELSE NoTemplate

GetTemplate(name) ==
    /\ Idle
    /\ last' = Request("get", name, EmptyMap, TemplateOf(name),
                       get_template(templates, name), << >>)
    /\ UNCHANGED << engine, templates, loader, env, callers >>

ListTemplates(category) ==
    /\ Idle
    /\ last' = [Request("list", << >>, EmptyMap, NoTemplate, NoOutcome,
                        Names(list_templates(templates, category)))
                    EXCEPT !.category = category]
    /\ UNCHANGED << engine, templates, loader, env, callers >>

ValidateParameters(name, params) ==
    /\ Idle
    /\ last' = Request("validate", name, params, TemplateOf(name),
                       validate_parameters(templates, name, params, env),
                       << >>)
    /\ UNCHANGED << engine, templates, loader, env, callers >>

\* resolve_command dropping from the registry a template it could not
\* resolve
ResolveCommand_Dropping(name, params) ==
    /\ Idle
    /\ last' = Request("resolve", name, params, TemplateOf(name),
                       resolve_command(templates, name, params, env),
                       << >>)
    /\ templates' = IF last'.out.kind = "ok" THEN templates
                    ELSE SelectSeq(templates, LAMBDA t : t.name # name)
    /\ UNCHANGED << engine, loader, env, callers >>

ResolveCommand(name, params) ==
    /\ Idle
    /\ last' = Request("resolve", name, params, TemplateOf(name),
                       resolve_command(templates, name, params, env),
                       << >>)
    /\ UNCHANGED << engine, templates, loader, env, callers >>

\* the caller has taken the answer
Return ==
    /\ last.op # "none"
    /\ last' = NoRequest
    /\ UNCHANGED << engine, templates, loader, env, callers >>

\* the names requests ask for: those of the registry, those of the registry
\* a running reload emptied, and one no document has
Asked == Keys(templates) \cup Keys(loader.old) \cup {Missing}

\* The parameter maps are drawn only when a request can be made.
Next ==
    \/ \E e \in Envs : ChangeEnv(e)
    \/ \E t \in Threads : GetEngine(t)
    \/ \E t \in Threads : \E doc \in Docs : Construct(t, doc)
    \/ \E t \in Threads : ConstructStep(t)
    \/ \E t \in Threads : ConstructReturn(t)
    \/ \E t \in Threads : Publish(t)
    \/ \E t \in Threads : ReturnEngine(t)
    \/ \E t \in Threads : Leave(t)
    \/ \E doc \in Docs : Reload(doc)
    \/ LoadStep
    \/ LoadReturn
    \/ \E name \in Asked : GetTemplate(name)
    \/ \E category \in Categories : ListTemplates(category)
    \/ /\ Idle
       /\ \E name \in Asked :
            \E params \in ParamMaps(TemplateOf(name).parameters) :
                ValidateParameters(name, params)
    \/ /\ Idle
       /\ \E name \in Asked :
            \E params \in ParamMaps(TemplateOf(name).parameters) :
                ResolveCommand(name, params)
    \/ Return

Spec == Init /\ [][Next]_vars

\* ------------------------------------------------------------------ claims
IsCall == last.op \in {"validate", "resolve"} /\ last.template # NoTemplate

Decl == last.template.parameters

NoUnknown == DOMAIN last.params \subseteq Keys(Decl)

\* what validate_parameter answers for the i-th declared parameter of the
\* request
Single(i) ==
    validate_parameter(DictGet(last.params, Decl[i].name), Decl[i].def,
                       last.env)

\* the i-th declared parameter is a path and the request gives it a text
\* with ".."
DotDot(i) ==
    /\ Decl[i].def.type = "path"
    /\ Decl[i].name \in DOMAIN last.params
    /\ Contains(PyStr(last.params[Decl[i].name]), << ".", "." >>)

\* the prefix matches the path at a segment boundary
BoundaryMatch(path, prefix) ==
    /\ StartsWith(path, prefix)
    /\ \/ prefix # << >> /\ prefix[Len(prefix)] = "/"
       \/ Len(path) = Len(prefix)
       \/ path[Len(prefix) + 1] = "/"

AnyBoundaryMatch(path, prefixes) ==
    \E j \in 1..Len(prefixes) : BoundaryMatch(path, prefixes[j])

\* C1: a command that resolve_command returns contains none of the
\* characters backquote $ ; & | < > line feed, carriage return.
C1_ResolvedCommandClean ==
    (last.op = "resolve" /\ last.out.kind = "ok")
        => Chars(last.out.text) \cap DangerousChars = {}

\* C2: when the sweep after substitution finds one of backquote $ ; & | in
\* the resolved text, resolve_command raises SecurityViolationError and the
\* request is answered 403, not 400.
C2_SweepRaisesSecurityViolation ==
    (/\ last.op = "resolve"
     /\ last.template # NoTemplate
     /\ LET v == validate_parameters(last.reg, last.name, last.params,
                                     last.env)
            f == Format(last.template.command, v.vals, << >>)
        IN  /\ v.kind = "ok"
            /\ f.kind = "ok"
            /\ Chars(f.text) \cap SweepChars # {})
        => /\ last.out.kind = "SecurityViolationError"
           /\ ExceptionStatus(last.out.kind) = 403

\* C3: a request with a parameter name the template does not declare fails
\* with ValidationError before validate_parameter is invoked on any
\* parameter, and no parameter's own error is reported.
C3_UnknownParameterFirst ==
    (IsCall /\ ~NoUnknown)
        => /\ last.out.kind = "ValidationError"
           /\ last.out.calls = << >>
           /\ last.out.who = << >>

\* a request with an unknown name and a declared parameter that would be
\* refused as a security violation
C3_Witness ==
    /\ IsCall
    /\ ~NoUnknown
    /\ \E i \in 1..Len(Decl) : Single(i).kind = "SecurityViolationError"
    /\ last.out.kind = "ValidationError"

\* C4: after a call of load_templates that fails, the registry is not a
\* proper, non-empty part of the document that was being loaded.
C4_LoadAllOrNothing ==
    loader.pc = "failed"
        => ~(/\ Keys(templates) # {}
             /\ Keys(templates) \subseteq Keys(loader.config)
             /\ Keys(templates) # Keys(loader.config))

\* C5: a path parameter given a text that contains ".." is refused with
\* SecurityViolationError by validate_parameter, and validate_parameters
\* and resolve_command raise that kind when they report this parameter.
C5_DotDotIsSecurityViolation ==
    IsCall =>
        \A i \in 1..Len(Decl) :
            DotDot(i) =>
                /\ Single(i).kind = "SecurityViolationError"
                /\ last.out.kind # "ok"
                /\ last.out.who = Decl[i].name
                       => last.out.kind = "SecurityViolationError"

\* C6: a path is accepted only if an allowed prefix (when any is set)
\* matches it at a segment boundary and no forbidden prefix does; a
\* canonical path is refused for its prefixes only by that same rule.
C6_PrefixAtSegmentBoundary ==
    IsCall =>
        \A i \in 1..Len(Decl) :
            (/\ Decl[i].def.type = "path"
             /\ Decl[i].name \in DOMAIN last.params
             /\ last.params[Decl[i].name].t = "str")
            => LET value == last.params[Decl[i].name].s
                   def == Decl[i].def
                   r == Resolve(value, last.env)
                   inside ==
                       /\ def.allowed_paths # << >>
                              => AnyBoundaryMatch(value, def.allowed_paths)
                       /\ ~AnyBoundaryMatch(value, def.forbidden_paths)
                   canonical ==
                       /\ r.kind = "ok"
                       /\ r.path = value
                       /\ ~Contains(value, << ".", "." >>)
               IN  /\ Single(i).kind = "ok" => inside
                   /\ (canonical /\ inside) => Single(i).kind = "ok"
                   /\ (canonical /\ ~inside)
                          => Single(i).kind = "SecurityViolationError"

\* C7: validate_parameters accepts the map it returned, and returns it
\* again: same keys, same values.
C7_ValidateIdempotent ==
    (last.op = "validate" /\ last.out.kind = "ok")
        => LET again == validate_parameters(last.reg, last.name,
                                            last.out.vals, last.env)
           IN  /\ again.kind = "ok"
               /\ again.vals = last.out.vals

\* an accepted request whose validated map differs from the map sent: a
\* value was converted or a default filled in
C7_Witness ==
    /\ last.op = "validate"
    /\ last.out.kind = "ok"
    /\ Decl # << >>
    /\ last.out.vals # last.params
    /\ \E i \in 1..Len(Decl) :
            /\ Decl[i].name \notin DOMAIN last.params
            /\ last.out.vals[Decl[i].name] # NoneV

\* C8: every template of the registry has each placeholder of its command
\* declared and each declared parameter referenced exactly once.
C8_PlaceholdersMatchParameters ==
    \A i \in 1..Len(templates) :
        LET fields == Fields(templates[i].command)
        IN  /\ \A j \in 1..Len(fields) :
                    fields[j] \in Keys(templates[i].parameters)
            /\ \A name \in Keys(templates[i].parameters) :
                    Cardinality({ j \in 1..Len(fields) : fields[j] = name })
                        = 1

\* C9: no template of the registry has in its command a character of
\* backquote $ ; & | < > line feed, carriage return, backslash, or "../".
C9_NoDangerInRegistry ==
    \A i \in 1..Len(templates) :
        /\ Chars(templates[i].command)
               \cap (DangerousChars \cup {"\\"}) = {}
        /\ ~Contains(templates[i].command, << ".", ".", "/" >>)

\* the declared parameters of the request that validate_parameter refuses
Failing == { i \in 1..Len(Decl) : Single(i).kind # "ok" }

\* C10 as stated: of the parameters that fail, the one reported has the
\* lexicographically smallest name.
C10_LexicographicFirstError ==
    (IsCall /\ NoUnknown /\ Failing # {})
        => \A i \in Failing :
                last.out.who = Decl[i].name
                \/ StrLess(last.out.who, Decl[i].name)

\* C10 amended: of the parameters that fail, the one reported is the first
\* in the order of declaration of the configuration document, with the
\* error validate_parameter raises for it.
C10_DeclarationFirstError ==
    (IsCall /\ NoUnknown /\ Failing # {})
        => LET k == CHOOSE i \in Failing : \A j \in Failing : i <= j
           IN  /\ last.out.who = Decl[k].name
               /\ last.out.kind = Single(k).kind

\* a request with two failing parameters, the first declared of which does
\* not have the smallest name
C10_Witness ==
    /\ IsCall
    /\ NoUnknown
    /\ Cardinality(Failing) >= 2
    /\ \E i \in Failing : StrLess(Decl[i].name, last.out.who)

\* the names of the templates of the registry the request saw that the
\* filter of the request keeps
Matching ==
    { last.reg[i].name : i \in { j \in 1..Len(last.reg) :
            last.category = "" \/ last.reg[j].category = last.category } }

\* C11: list_templates returns the templates the filter keeps, each once,
\* in lexicographic order of name.
C11_ListLexicographic ==
    last.op = "list"
        => /\ { last.list[i] : i \in 1..Len(last.list) } = Matching
           /\ \A i, j \in 1..Len(last.list) :
                    i < j => StrLess(last.list[i], last.list[j])

\* C12: resolve_command called again with the same name and parameters on
\* the same registry gives the same outcome, the same text or an error of
\* the same kind, whatever symbolic links the file system has at that time.
C12_ResolveIgnoresEnvironment ==
    last.op = "resolve"
        => \A e \in Envs :
                LET again == resolve_command(last.reg, last.name,
                                             last.params, e)
                IN  /\ again.kind = last.out.kind
                    /\ again.text = last.out.text

\* the request gives no value for the i-th declared parameter
NotGiven(i) == Decl[i].name \notin DOMAIN last.params

\* C13: for a parameter the request gives no value for, validate_parameter
\* raises ValidationError, reported under the parameter's name, when the
\* definition is required and has no default; validates the default as it
\* validates a supplied value when there is one; and returns None without
\* any check when the parameter is optional and has no default.
C13_PresenceStep ==
    IsCall =>
        \A i \in 1..Len(Decl) :
            NotGiven(i) =>
                LET def == Decl[i].def
                IN  /\ (def.required /\ def.default = NoneV)
                        => /\ Single(i).kind = "ValidationError"
                           /\ (/\ NoUnknown
                               /\ \A j \in 1..(i - 1) : Single(j).kind = "ok")
                              => /\ last.out.kind = "ValidationError"
                                 /\ last.out.who = Decl[i].name
                    /\ def.default # NoneV
                        => Single(i) = validate_parameter(def.default, def,
                                                          last.env)
                    /\ (~def.required /\ def.default = NoneV)
                        => /\ Single(i) = Ok(NoneV)
                           /\ (last.op = "validate" /\ last.out.kind = "ok")
                              => last.out.vals[Decl[i].name] = NoneV

\* a request that gives the first declared parameter a value that passes
\* and no value for a later one, required and without default
C13_Witness ==
    /\ IsCall
    /\ NoUnknown
    /\ \E i \in 2..Len(Decl) :
            /\ NotGiven(i)
            /\ Decl[i].def.required
            /\ Decl[i].def.default = NoneV
            /\ \A j \in 1..(i - 1) : ~NotGiven(j) /\ Single(j).kind = "ok"
            /\ last.out.who = Decl[i].name

\* C14: a call of get_template, list_templates, validate_parameters or
\* resolve_command, whether it returns or raises, leaves the registry as it
\* was: the same names, in the same order, with the same definitions.
C14_CallsLeaveRegistry ==
    [][(last.op = "none" /\ last'.op # "none") => templates' = templates]_vars

\* a call that raised on a loaded registry, which is still the registry the
\* call saw
C14_Witness ==
    /\ last.op \in {"get", "validate", "resolve"}
    /\ last.out.kind \notin {"ok", "none"}
    /\ loader.pc = "done"
    /\ templates # << >>
    /\ templates = last.reg

\* a request is answered while load_templates runs on the engine in use
DuringReload == last.op # "none" /\ loader.pc = "loop" /\ ~loader.init

\* C15: a request answered during a reload sees the registry the reload
\* found or the registry of the whole new document, and get_template does
\* not raise CommandNotFoundError for a name both have.
C15_ReloadAtomic ==
    DuringReload
        => /\ \/ last.reg = loader.old
              \/ last.reg = loader.config
           /\ (/\ last.op = "get"
               /\ last.name \in Keys(loader.old) \cap Keys(loader.config))
              => last.out.kind # "CommandNotFoundError"

\* C16: of the calls of get_template_engine in progress, at most one has
\* had its constructor return, and those that have returned hold the same
\* object.
C16_EngineInitialisedOnce ==
    /\ Cardinality({ t \in Threads : callers[t].built }) <= 1
    /\ \A t, u \in Threads :
            (callers[t].pc = "done" /\ callers[u].pc = "done")
                => callers[t].ref = callers[u].ref

====
